---- MODULE Spec2Model ----
(***************************************************************************)
(* Model of the o1-xml-parser: parseXmlString (src/lib/xml-parser.ts, the  *)
(* hardened version), applyFileChanges (src/lib/apply-changes.ts) and      *)
(* applyChangesAction (src/actions/apply-changes-actions.ts).              *)
(*                                                                         *)
(* Strings are sequences of one-character strings, so that trim,           *)
(* toUpperCase and path splitting are computed and not assumed.  The       *)
(* document handed to the parser is the DOM tree the XML library builds    *)
(* from the text, together with the three facts about the raw text that    *)
(* the code tests directly.  A node reference is the node's position in    *)
(* the tree: the sequence of child indices leading to it from the root.    *)
(***************************************************************************)
EXTENDS Naturals, Integers, Sequences, FiniteSets, TLC

\* ------------------------------------------------------------------------
\* Strings
\* ------------------------------------------------------------------------

\* The value of an absent optional field (JavaScript undefined).  It is a
\* one-element tuple holding a long string, so it differs from every string
\* of the model (a tuple of one-character strings).
Undefined == <<"undefined">>

WhiteSpace == {" ", "\n"}

Lowers == <<"a","b","c","d","e","f","g","h","i","j","k","l","m",
            "n","o","p","q","r","s","t","u","v","w","x","y","z">>
Uppers == <<"A","B","C","D","E","F","G","H","I","J","K","L","M",
            "N","O","P","Q","R","S","T","U","V","W","X","Y","Z">>

SetMin(S) == CHOOSE x \in S : \A y \in S : x <= y
SetMax(S) == CHOOSE x \in S : \A y \in S : x >= y

\* String.prototype.trim
Trim(s) ==
  LET keep == {i \in 1..Len(s) : s[i] \notin WhiteSpace}
  IN  IF keep = {} THEN <<>> ELSE SubSeq(s, SetMin(keep), SetMax(keep))

ToUpperChar(ch) ==
  IF \E i \in 1..Len(Lowers) : Lowers[i] = ch
    THEN Uppers[CHOOSE i \in 1..Len(Lowers) : Lowers[i] = ch]
    ELSE ch

\* String.prototype.toUpperCase
ToUpperCase(s) == [i \in 1..Len(s) |-> ToUpperChar(s[i])]

\* JavaScript falsiness of a string | undefined value: !v
Falsy(v) == v = Undefined \/ v = <<>>

CREATE == <<"C","R","E","A","T","E">>
UPDATE == <<"U","P","D","A","T","E">>
DELETE == <<"D","E","L","E","T","E">>

\* ------------------------------------------------------------------------
\* DOM
\* ------------------------------------------------------------------------

ELEMENT_NODE == 1
CDATA_SECTION_NODE == 4

Elem(name, kids) ==
  [nodeType |-> ELEMENT_NODE, nodeName |-> name, nodeValue |-> <<>>, childNodes |-> kids]
Text(v) ==
  [nodeType |-> 3, nodeName |-> "#text", nodeValue |-> v, childNodes |-> <<>>]
CData(v) ==
  [nodeType |-> CDATA_SECTION_NODE, nodeName |-> "#cdata-section", nodeValue |-> v,
   childNodes |-> <<>>]

\* doc.documentElement of a text that holds no element
NoElement == [nodeType |-> 0, nodeName |-> "", nodeValue |-> <<>>, childNodes |-> <<>>]

\* The node at position pos under root
RECURSIVE NodeAt(_, _)
NodeAt(root, pos) ==
  IF pos = <<>> THEN root ELSE NodeAt(root.childNodes[Head(pos)], Tail(pos))

\* Node.textContent: the character data of all descendants, in document order
RECURSIVE TextContent(_)
RECURSIVE TextContentFrom(_, _)
TextContentFrom(node, k) ==
  IF k > Len(node.childNodes) THEN <<>>
  ELSE TextContent(node.childNodes[k]) \o TextContentFrom(node, k + 1)
TextContent(node) ==
  IF node.nodeType = ELEMENT_NODE THEN TextContentFrom(node, 1) ELSE node.nodeValue

\* The element descendants of the node at pos (itself excluded), as
\* positions, in document order, starting at its k-th child
RECURSIVE DescendantsFrom(_, _, _)
DescendantsFrom(root, pos, k) ==
  LET node == NodeAt(root, pos)
  IN  IF k > Len(node.childNodes) THEN <<>>
      ELSE LET p == Append(pos, k)
           IN  (IF node.childNodes[k].nodeType = ELEMENT_NODE
                  THEN <<p>> \o DescendantsFrom(root, p, 1)
                  ELSE <<>>)
               \o DescendantsFrom(root, pos, k + 1)

\* Element.getElementsByTagName: a live list of references to the
\* descendants with that tag name, in document order
GetElementsByTagName(root, pos, name) ==
  SelectSeq(DescendantsFrom(root, pos, 1), LAMBDA p : NodeAt(root, p).nodeName = name)

\* ------------------------------------------------------------------------
\* parseXmlString
\* ------------------------------------------------------------------------

\* const fileChange: Partial<ParsedFileChange> = {}
EmptyChange ==
  [file_summary |-> Undefined, file_operation |-> Undefined,
   file_path |-> Undefined, file_code |-> Undefined]

\* The first CDATA child of fileCodeNode, from its k-th child on (0: none)
RECURSIVE FirstCData(_, _)
FirstCData(fileCodeNode, k) ==
  IF k > Len(fileCodeNode.childNodes) THEN 0
  ELSE IF fileCodeNode.childNodes[k].nodeType = CDATA_SECTION_NODE THEN k
  ELSE FirstCData(fileCodeNode, k + 1)

ExtractFileCode(fileCodeNode) ==
  LET k == FirstCData(fileCodeNode, 1)
      text == Trim(TextContent(fileCodeNode))
  IN  IF k > 0 THEN Trim(fileCodeNode.childNodes[k].nodeValue)
      ELSE IF text = <<>> THEN Undefined ELSE text

\* One iteration of the child loop of processFileElement
FileElementStep(fileChange, subNode) ==
  IF subNode.nodeType # ELEMENT_NODE THEN fileChange
  ELSE LET text == Trim(TextContent(subNode))
       IN  CASE subNode.nodeName = "file_summary" ->
                  [fileChange EXCEPT !.file_summary = text]
             [] subNode.nodeName = "file_operation" ->
                  [fileChange EXCEPT !.file_operation = ToUpperCase(text)]
             [] subNode.nodeName = "file_path" ->
                  [fileChange EXCEPT !.file_path = text]
             [] subNode.nodeName = "file_code" ->
                  [fileChange EXCEPT !.file_code = ExtractFileCode(subNode)]
             [] OTHER -> fileChange

RECURSIVE FileElementFields(_, _, _)
FileElementFields(fileNode, fc, fileChange) ==
  IF fc > Len(fileNode.childNodes) THEN fileChange
  ELSE FileElementFields(fileNode, fc + 1,
                         FileElementStep(fileChange, fileNode.childNodes[fc]))

\* FieldsValid without the test of file_code
FieldsValid_NoCodeTest(fileChange) ==
  /\ ~Falsy(fileChange.file_summary)
  /\ ~Falsy(fileChange.file_operation)
  /\ ~Falsy(fileChange.file_path)
  /\ fileChange.file_operation \in {CREATE, UPDATE, DELETE}

\* FieldsValid without the test of the operation's name
FieldsValid_AnyOperation(fileChange) ==
  /\ ~Falsy(fileChange.file_summary)
  /\ ~Falsy(fileChange.file_operation)
  /\ ~Falsy(fileChange.file_path)
  /\ (fileChange.file_operation \in {CREATE, UPDATE} => ~Falsy(fileChange.file_code))

\* The three validations an entry must pass (of processFileElement)
FieldsValid(fileChange) ==
  /\ ~Falsy(fileChange.file_summary)
  /\ ~Falsy(fileChange.file_operation)
  /\ ~Falsy(fileChange.file_path)
  /\ fileChange.file_operation \in {CREATE, UPDATE, DELETE}
  /\ (fileChange.file_operation \in {CREATE, UPDATE} => ~Falsy(fileChange.file_code))

\* processFileElement: <<>> for null, <<fileChange>> for an entry
ProcessFileElement(fileNode) ==
  LET fileChange == FileElementFields(fileNode, 1, EmptyChange)
  IN  IF FieldsValid(fileChange) THEN <<fileChange>> ELSE <<>>

\* LegacyStep without the upper-casing of file_operation
LegacyStep_KeepsCase(st, node, i) ==
  IF node.nodeType # ELEMENT_NODE THEN st
  ELSE LET text == Trim(TextContent(node))
       IN  CASE node.nodeName = "file_summary" ->
                  [st EXCEPT !.legacyFile.file_summary = text]
             [] node.nodeName = "file_operation" ->
                  [st EXCEPT !.legacyFile.file_operation = text]
             [] node.nodeName = "file_path" ->
                  [st EXCEPT !.legacyFile.file_path = text]
             [] node.nodeName = "file_code" ->
                  [st EXCEPT !.fileCodeNode = i]
             [] OTHER -> st

\* One iteration of the child loop of the legacy branch; st holds the
\* locals legacyFile and fileCodeNode (a child index, 0 for null)
LegacyStep(st, node, i) ==
  IF node.nodeType # ELEMENT_NODE THEN st
  ELSE LET text == Trim(TextContent(node))
       IN  CASE node.nodeName = "file_summary" ->
                  [st EXCEPT !.legacyFile.file_summary = text]
             [] node.nodeName = "file_operation" ->
                  [st EXCEPT !.legacyFile.file_operation = ToUpperCase(text)]
             [] node.nodeName = "file_path" ->
                  [st EXCEPT !.legacyFile.file_path = text]
             [] node.nodeName = "file_code" ->
                  [st EXCEPT !.fileCodeNode = i]
             [] OTHER -> st

RECURSIVE LegacyScan(_, _, _)
LegacyScan(changedFilesNode, i, st) ==
  IF i > Len(changedFilesNode.childNodes) THEN st
  ELSE LegacyScan(changedFilesNode, i + 1,
                  LegacyStep(st, changedFilesNode.childNodes[i], i))

\* The legacy file after the scan, its file_code extracted from the node kept
LegacyFields(changedFilesNode) ==
  LET st == LegacyScan(changedFilesNode, 1,
                       [legacyFile |-> EmptyChange, fileCodeNode |-> 0])
  IN  IF st.fileCodeNode > 0
        THEN [st.legacyFile EXCEPT
                !.file_code = ExtractFileCode(changedFilesNode.childNodes[st.fileCodeNode])]
        ELSE st.legacyFile

\* The three validations of the legacy branch
LegacyValid(legacyFile) ==
  /\ ~Falsy(legacyFile.file_summary)
  /\ ~Falsy(legacyFile.file_operation)
  /\ ~Falsy(legacyFile.file_path)
  /\ legacyFile.file_operation \in {CREATE, UPDATE, DELETE}
  /\ (legacyFile.file_operation \in {CREATE, UPDATE} => ~Falsy(legacyFile.file_code))

\* The legacy branch: <<>> when the block is skipped, <<legacyFile>> otherwise
ProcessLegacy(changedFilesNode) ==
  LET legacyFile == LegacyFields(changedFilesNode)
  IN  IF LegacyValid(legacyFile) THEN <<legacyFile>> ELSE <<>>

\* The loop over fileNodes from index f on: what it pushes, each entry with
\* the reference of the element it was read from
RECURSIVE FileLoop(_, _, _)
FileLoop(root, fileNodes, f) ==
  IF f > Len(fileNodes) THEN <<>>
  ELSE LET parsed == ProcessFileElement(NodeAt(root, fileNodes[f]))
       IN  [k \in 1..Len(parsed) |-> [src |-> fileNodes[f], change |-> parsed[k]]]
           \o FileLoop(root, fileNodes, f + 1)

\* One iteration of the loop over changedFilesNodes
ProcessBlock(root, changedFilesPos) ==
  LET fileNodes == GetElementsByTagName(root, changedFilesPos, "file")
  IN  IF Len(fileNodes) > 0
        THEN FileLoop(root, fileNodes, 1)
        ELSE LET parsed == ProcessLegacy(NodeAt(root, changedFilesPos))
             IN  [k \in 1..Len(parsed) |-> [src |-> changedFilesPos, change |-> parsed[k]]]

\* The loop over changedFilesNodes from index c on
RECURSIVE BlockLoop(_, _, _)
BlockLoop(root, changedFilesNodes, c) ==
  IF c > Len(changedFilesNodes) THEN <<>>
  ELSE ProcessBlock(root, changedFilesNodes[c]) \o BlockLoop(root, changedFilesNodes, c + 1)

\* doc.getElementsByTagName("changed_files")
ChangedFilesNodes(root) == GetElementsByTagName(root, <<>>, "changed_files")

\* allChanges with, beside each entry, the element it was read from
AllChangesTraced(root) == BlockLoop(root, ChangedFilesNodes(root), 1)

\* A thrown Error and a returned array
Throw(msg) == [ok |-> FALSE, error |-> msg, changes |-> <<>>, srcs |-> <<>>]
Return(traced) ==
  [ok |-> TRUE, error |-> "",
   changes |-> [k \in 1..Len(traced) |-> traced[k].change],
   srcs |-> [k \in 1..Len(traced) |-> traced[k].src]]

ErrEmpty == "Empty XML string provided"
ErrNoContainer == "XML must have a <code_changes> root element with proper closing tag."
ErrNoDocument == "Failed to parse XML document - documentElement is missing."
ErrRoot == "Root element must be <code_changes>"
ErrNoChangedFiles == "No <changed_files> elements found inside <code_changes>"
ErrNoValid == "No valid file changes found in the provided XML. Check formatting and required elements."

\* PostCondition without the throw
PostCondition_NoThrow(traced) == Return(traced)

\* The post-condition of parseXmlString
PostCondition(traced) ==
  IF Len(traced) = 0 THEN Throw(ErrNoValid) ELSE Return(traced)

\* parseXmlString.  xml.blank: the text is empty after trimming;
\* xml.hasOpenTag, xml.hasCloseTag: it includes "<code_changes>",
\* "</code_changes>"; xml.documentElement: the root the DOM parser returns.
ParseXmlString(xml) ==
  IF xml.blank THEN Throw(ErrEmpty)
  ELSE IF ~xml.hasOpenTag \/ ~xml.hasCloseTag THEN Throw(ErrNoContainer)
  ELSE IF xml.documentElement = NoElement THEN Throw(ErrNoDocument)
  ELSE IF xml.documentElement.nodeName # "code_changes" THEN Throw(ErrRoot)
  ELSE IF Len(ChangedFilesNodes(xml.documentElement)) = 0 THEN Throw(ErrNoChangedFiles)
  ELSE PostCondition(AllChangesTraced(xml.documentElement))

\* ------------------------------------------------------------------------
\* Paths (node:path, POSIX) and the filesystem (node:fs)
\* ------------------------------------------------------------------------

\* The segments of s between the "/" separators, from index i on, cur
\* being the segment read so far
RECURSIVE SplitFrom(_, _, _)
SplitFrom(s, i, cur) ==
  IF i > Len(s) THEN <<cur>>
  ELSE IF s[i] = "/" THEN <<cur>> \o SplitFrom(s, i + 1, <<>>)
  ELSE SplitFrom(s, i + 1, Append(cur, s[i]))

SplitPath(s) == SplitFrom(s, 1, <<>>)

\* Normalisation of the segments of an absolute path: empty and "."
\* segments go, ".." removes the segment before it (none at the root)
RECURSIVE NormalizeSegs(_, _)
NormalizeSegs(segs, acc) ==
  IF segs = <<>> THEN acc
  ELSE LET h == Head(segs)
       IN  IF h = <<>> \/ h = <<".">> THEN NormalizeSegs(Tail(segs), acc)
           ELSE IF h = <<".", ".">>
             THEN NormalizeSegs(Tail(segs),
                                IF acc = <<>> THEN acc ELSE SubSeq(acc, 1, Len(acc) - 1))
           ELSE NormalizeSegs(Tail(segs), Append(acc, h))

\* The text of an absolute path given by its segments
RECURSIVE RenderFrom(_, _)
RenderFrom(segs, i) ==
  IF i > Len(segs) THEN <<>> ELSE <<"/">> \o segs[i] \o RenderFrom(segs, i + 1)

Render(segs) == IF segs = <<>> THEN <<"/">> ELSE RenderFrom(segs, 1)

\* path.isAbsolute
IsAbsolute(s) == Len(s) > 0 /\ s[1] = "/"

\* path.join(a, b) for an absolute a: normalize(a + "/" + b)
Join(a, b) == Render(NormalizeSegs(SplitPath(a \o <<"/">> \o b), <<>>))

\* process.cwd()
Cwd == <<"/", "w">>

\* path.resolve(s)
Resolve(s) == IF IsAbsolute(s) THEN Join(s, <<>>) ELSE Join(Cwd, s)

\* path.dirname of a normalised absolute path
Dirname(p) ==
  LET segs == NormalizeSegs(SplitPath(p), <<>>)
  IN  IF segs = <<>> THEN <<"/">> ELSE Render(SubSeq(segs, 1, Len(segs) - 1))

\* The path and its ancestors, the root first
Prefixes(p) ==
  LET segs == NormalizeSegs(SplitPath(p), <<>>)
  IN  [k \in 1..(Len(segs) + 1) |-> Render(SubSeq(segs, 1, k - 1))]

\* A filesystem is a function from the normalised absolute paths that
\* exist to what is there
Dir == [kind |-> "dir", content |-> <<>>]
File(content) == [kind |-> "file", content |-> content]

Exists(fsys, p) == p \in DOMAIN fsys
IsDir(fsys, p) == Exists(fsys, p) /\ fsys[p].kind = "dir"
IsFile(fsys, p) == Exists(fsys, p) /\ fsys[p].kind = "file"

\* Some proper ancestor of p is a regular file
AncestorIsFile(fsys, p) ==
  LET pre == Prefixes(p) IN \E k \in 1..(Len(pre) - 1) : IsFile(fsys, pre[k])

Put(fsys, p, entry) == [q \in DOMAIN fsys \cup {p} |-> IF q = p THEN entry ELSE fsys[q]]
Remove(fsys, p) == [q \in DOMAIN fsys \ {p} |-> fsys[q]]

\* fs.mkdir(dir, { recursive: true }): the error code ("" for none) and
\* the filesystem after it
MkdirError(fsys, dir) ==
  IF AncestorIsFile(fsys, dir) THEN "ENOTDIR"
  ELSE IF IsFile(fsys, dir) THEN "EEXIST"
  ELSE ""

MkdirResult(fsys, dir) ==
  LET pre == Prefixes(dir)
      new == {pre[k] : k \in 1..Len(pre)}
  IN  [q \in DOMAIN fsys \cup new |-> IF q \in DOMAIN fsys THEN fsys[q] ELSE Dir]

\* fs.writeFile(path, data): the error code of a write the filesystem refuses
WriteError(fsys, p) ==
  IF AncestorIsFile(fsys, p) THEN "ENOTDIR"
  ELSE IF ~IsDir(fsys, Dirname(p)) THEN "ENOENT"
  ELSE IF IsDir(fsys, p) THEN "EISDIR"
  ELSE ""

\* WriteResult that adds the data to what the file held
WriteResult_Appends(fsys, p, data) ==
  Put(fsys, p, File((IF IsFile(fsys, p) THEN fsys[p].content ELSE <<>>) \o data))

\* fs.writeFile(path, data) that completes: the file holds the data and
\* nothing else
WriteResult(fsys, p, data) == Put(fsys, p, File(data))

\* fs.rm(path, { force: true }): the error code of a removal it refuses
RmError(fsys, p) ==
  IF AncestorIsFile(fsys, p) THEN "ENOTDIR"
  ELSE IF IsDir(fsys, p) THEN "ERR_FS_EISDIR"
  ELSE ""

\* RmResult that removes nothing
RmResult_KeepsFile(fsys, p) == fsys

RmResult(fsys, p) == IF Exists(fsys, p) THEN Remove(fsys, p) ELSE fsys

\* ------------------------------------------------------------------------
\* applyFileChanges and applyChangesAction
\* ------------------------------------------------------------------------

\* const fullPath = join(projectDirectory, file_path)
FullPath(change, directory) == Join(directory, change.file_path)

\* What applyFileChanges returns when it completes: it has no return
\* statement
ApplyReturnValue(change, directory) == Undefined

ErrNoFileCode == "No file_code provided"

\* The way applyFileChanges takes at its switch: "throw", "write", "rm" or
\* "default"
ApplyBranch(change) ==
  LET op == ToUpperCase(change.file_operation)
  IN  IF op \in {CREATE, UPDATE}
        THEN IF Falsy(change.file_code) THEN "throw" ELSE "write"
      ELSE IF op = DELETE THEN "rm"
      ELSE "default"

\* let finalDirectory = projectDirectory && projectDirectory.trim() !== ""
\*   ? projectDirectory.trim() : process.env.PROJECT_DIRECTORY
ChooseDirectory(dir, env) == IF ~Falsy(dir) /\ Trim(dir) # <<>> THEN Trim(dir) ELSE env

ErrNoDirectory == "No project directory provided."
ErrAccess == "Cannot access directory"
ErrMissingPath == "Missing file_path in XML"
ErrMissingOperation == "Missing file_operation"
ErrMissingCode == "Missing file_code"

\* The pre-apply validation of one entry: the message thrown, "" for none
EntryError(file) ==
  IF Falsy(file.file_path) THEN ErrMissingPath
  ELSE IF Falsy(file.file_operation) THEN ErrMissingOperation
  ELSE IF ToUpperCase(file.file_operation) \in {CREATE, UPDATE} /\ Falsy(file.file_code)
    THEN ErrMissingCode
  ELSE ""

\* The validation loop from entry k on: the first message thrown, "" for none
RECURSIVE ValidationError(_, _)
ValidationError(chs, k) ==
  IF k > Len(chs) THEN ""
  ELSE IF EntryError(chs[k]) # "" THEN EntryError(chs[k])
  ELSE ValidationError(chs, k + 1)

NA == <<"N", "/", "A">>

\* The entry pushed for a change that was applied
SucceededEntry(file, absPath) ==
  [filePath |-> file.file_path, absolutePath |-> absPath, error |-> ""]

\* The path the catch block derives for a change that failed
DerivedPath(file, directory) ==
  IF IsAbsolute(file.file_path) THEN file.file_path ELSE Join(directory, file.file_path)

\* The entry pushed for a change that failed
FailedEntry(file, directory, message) ==
  [filePath |-> file.file_path, absolutePath |-> DerivedPath(file, directory),
   error |-> message]

\* The entry pushed by the outer catch
SyntheticEntry(message) == [filePath |-> NA, absolutePath |-> NA, error |-> message]

\* ------------------------------------------------------------------------
\* Inputs: documents, directories, filesystems
\* ------------------------------------------------------------------------

\* The most entries a document of the layout family holds
MaxEntries == 3
\* The most entries a document of the apply family holds
MaxChanges == 2

Nl == <<"\n">>

Field(name, text) == Elem(name, <<Text(text)>>)

\* The text the DOM was built from was well formed and had both tags
Xml(root) ==
  [blank |-> FALSE, hasOpenTag |-> TRUE, hasCloseTag |-> TRUE, documentElement |-> root]

\* A changed_files block of the given entries (each the sequence of an
\* entry's field elements) in dialect "file" (wrapped) or "flat" (legacy)
RECURSIVE Flat(_, _)
Flat(entries, k) == IF k > Len(entries) THEN <<>> ELSE entries[k] \o Flat(entries, k + 1)

Wrapped(entries) == [k \in 1..Len(entries) |-> Elem("file", <<Text(Nl)>> \o entries[k])]

Block(entries, dialect) ==
  Elem("changed_files",
       <<Text(Nl)>> \o (IF dialect = "file" THEN Wrapped(entries) ELSE Flat(entries, 1)))

Document(blocks) == Xml(Elem("code_changes", <<Text(Nl)>> \o blocks))

\* Field variety: every combination of these forms of the four fields, as
\* a document of one entry in each dialect
SummaryForms ==
  { <<>>,
    <<Elem("file_summary", <<>>)>>,
    <<Field("file_summary", <<" ", "s", " ">>)>> }
OperationForms ==
  { <<>>,
    <<Elem("file_operation", <<>>)>>,
    <<Field("file_operation", <<"c", "r", "e", "a", "t", "e">>)>>,
    <<Field("file_operation", <<" ", "D", "e", "l", "e", "t", "e", "\n">>)>>,
    <<Field("file_operation", UPDATE)>>,
    <<Field("file_operation", <<"R", "E", "N", "A", "M", "E">>)>> }
PathForms ==
  { <<>>,
    <<Field("file_path", <<" ">>)>>,
    <<Field("file_path", <<"a">>)>>,
    <<Field("file_path", <<" ", "d", "/", "a", " ">>)>> }
CodeForms ==
  { <<>>,
    <<Elem("file_code", <<>>)>>,
    <<Field("file_code", <<"A">>)>>,
    <<Elem("file_code", <<Text(Nl), CData(<<" ", "B", " ">>), Text(Nl)>>)>>,
    <<Elem("file_code", <<Text(<<"A">>), CData(<<"B">>)>>)>>,
    <<Elem("file_code", <<CData(<<" ">>)>>)>> }

FieldEntries ==
  { s \o o \o p \o c :
      s \in SummaryForms, o \in OperationForms, p \in PathForms, c \in CodeForms }

Dialects == {"file", "flat"}

FieldDocs == { Document(<<Block(<<e>>, d)>>) : e \in FieldEntries, d \in Dialects }

\* Layout: up to MaxEntries entries, each one of three kinds (a valid
\* CREATE, a valid DELETE without file_code, a CREATE without file_path),
\* cut into consecutive blocks in every way, each block in either dialect
EntryCreate ==
  << Field("file_summary", <<"s">>), Field("file_operation", CREATE),
     Field("file_path", <<"a">>), Elem("file_code", <<CData(<<"A">>)>>) >>
EntryDelete ==
  << Field("file_summary", <<"t">>), Field("file_operation", DELETE),
     Field("file_path", <<"b">>) >>
EntryNoPath ==
  << Field("file_summary", <<"u">>), Field("file_operation", CREATE),
     Elem("file_code", <<CData(<<"B">>)>>) >>

LayoutEntries == {EntryCreate, EntryDelete, EntryNoPath}

\* The ways to write n as an ordered sum of positive block sizes
RECURSIVE Compositions(_)
Compositions(n) ==
  IF n = 0 THEN {<<>>}
  ELSE UNION { { <<k>> \o c : c \in Compositions(n - k) } : k \in 1..n }

\* The blocks of the entries es cut by the sizes, block j in dialect ds[j]
RECURSIVE Blocks(_, _, _, _)
Blocks(es, sizes, ds, j) ==
  IF j > Len(sizes) THEN <<>>
  ELSE <<Block(SubSeq(es, 1, sizes[j]), ds[j])>>
       \o Blocks(SubSeq(es, sizes[j] + 1, Len(es)), sizes, ds, j + 1)

LayoutDocsOf(n) ==
  UNION { UNION { { Document(Blocks(es, sizes, ds, 1)) :
                      ds \in [1..Len(sizes) -> Dialects] } :
                  sizes \in Compositions(n) } :
          es \in [1..n -> LayoutEntries] }

LayoutDocs == UNION { LayoutDocsOf(n) : n \in 1..MaxEntries }

\* Nesting: a changed_files block inside a changed_files block, the inner
\* one first, holding the first entry in either dialect, the others
\* following it as file elements of the outer one
NestedDocsOf(n) ==
  { Document(<< Elem("changed_files",
                     <<Block(<<es[1]>>, d)>> \o Wrapped(SubSeq(es, 2, n))) >>) :
      es \in [1..n -> LayoutEntries], d \in Dialects }

NestedDocs == UNION { NestedDocsOf(n) : n \in 1..MaxEntries }

\* Documents the structural checks are about
OneBlock == <<Block(<<EntryCreate>>, "file")>>

StructureDocs ==
  { [blank |-> TRUE, hasOpenTag |-> FALSE, hasCloseTag |-> FALSE, documentElement |-> NoElement],
    [Document(OneBlock) EXCEPT !.hasOpenTag = FALSE],
    [Document(OneBlock) EXCEPT !.hasCloseTag = FALSE],
    Xml(NoElement),
    Xml(Elem("response", <<Elem("code_changes", OneBlock)>>)),
    Xml(Elem("code_changes", <<Text(Nl)>>)),
    Xml(Elem("code_changes", <<Elem("wrapper", OneBlock)>>)),
    Document(<<Elem("changed_files", <<Text(Nl)>>)>>) }

\* Tuples: one legacy block of up to MaxEntries complete entries, each
\* its four fields in the order summary, operation, path, code
EntryUpdate ==
  << Field("file_summary", <<"v">>), Field("file_operation", UPDATE),
     Field("file_path", <<"b">>), Elem("file_code", <<CData(<<"B">>)>>) >>

Tuples == {EntryCreate, EntryUpdate}

TupleDocs ==
  UNION { { Document(<<Block(es, "flat")>>) : es \in [1..n -> Tuples] } :
          n \in 1..MaxEntries }

\* Broken tuples: a legacy block of at most one complete entry, then an
\* entry whose fields are not the four in order (file_path missing, or
\* file_operation before file_summary), then at most one complete entry;
\* a block with a file element follows it
EntryOutOfOrder ==
  << Field("file_operation", CREATE), Field("file_summary", <<"w">>),
     Field("file_path", <<"c">>), Elem("file_code", <<CData(<<"C">>)>>) >>

BrokenEntries == {EntryNoPath, EntryOutOfOrder}

BrokenDoc(pre, broken, post) ==
  Document(<<Block(pre \o <<broken>> \o post, "flat"), Block(<<EntryDelete>>, "file")>>)

BrokenDocs ==
  { BrokenDoc(pre, broken, post) :
      pre \in {<<>>, <<EntryCreate>>}, broken \in BrokenEntries,
      post \in {<<>>, <<EntryUpdate>>} }

ParserDocs ==
  FieldDocs \cup LayoutDocs \cup NestedDocs \cup StructureDocs \cup TupleDocs
    \cup BrokenDocs

\* Apply: one wrapped block of up to MaxChanges entries on the paths a and
\* a/b under the directory and on the absolute path /a, one code ending
\* with a newline, the last entry an UPDATE without file_code
Change(op, path, code) ==
  << Field("file_summary", <<"s">>), Field("file_operation", op),
     Field("file_path", path) >>
  \o (IF code = <<>> THEN <<>> ELSE <<Elem("file_code", <<CData(code)>>)>>)

ApplyEntries ==
  { Change(CREATE, <<"a">>, <<"A", "A">>),
    Change(UPDATE, <<"a">>, <<"B">>),
    Change(DELETE, <<"a">>, <<>>),
    Change(CREATE, <<"a", "/", "b">>, <<"A", "\n">>),
    Change(DELETE, <<"a", "/", "b">>, <<>>),
    Change(UPDATE, <<"/", "a">>, <<"C">>),
    Change(DELETE, <<".", "/", "a">>, <<>>),
    Change(UPDATE, <<"a">>, <<>>) }

ApplyDocs ==
  UNION { { Document(<<Block(es, "file")>>) : es \in [1..n -> ApplyEntries] } :
          n \in 1..MaxChanges }

ProjectDir == <<"/", "p">>

\* projectDirectory and process.env.PROJECT_DIRECTORY
DirectoryInputs ==
  { <<ProjectDir, Undefined>>,
    <<<<" ", "/", "p", "/", " ">>, Undefined>>,
    <<<<" ">>, ProjectDir>>,
    <<<<>>, Undefined>>,
    <<<<"/", "q">>, Undefined>> }

FsEmpty == (<<"/">> :> Dir) @@ (ProjectDir :> Dir)

InitialFs ==
  { FsEmpty,
    FsEmpty @@ (<<"/", "p", "/", "a">> :> File(<<"Z">>)),
    FsEmpty @@ (<<"/", "p", "/", "a">> :> Dir) }

\* ------------------------------------------------------------------------
\* The state machine: one call of applyChangesAction(xml, projectDirectory)
\* ------------------------------------------------------------------------

VARIABLES
  xml,               \* the document
  projectDirectory,  \* the directory argument
  envDirectory,      \* process.env.PROJECT_DIRECTORY
  fs,                \* the filesystem
  fs0,               \* the filesystem when the call began
  pc,                \* where the call is
  parsed,            \* what parseXmlString returned or threw
  finalDirectory,
  idx,               \* the index of `file` in the apply loop
  fullPath,          \* of the applyFileChanges call in progress
  err,               \* the message of the Error in flight
  succeededFiles,
  failedFiles,
  calls              \* the applyFileChanges calls so far, in order

vars ==
  << xml, projectDirectory, envDirectory, fs, fs0, pc, parsed, finalDirectory, idx,
     fullPath, err, succeededFiles, failedFiles, calls >>

inputs == << xml, projectDirectory, envDirectory, fs0 >>

NotParsed == [ok |-> FALSE, error |-> "", changes |-> <<>>, srcs |-> <<>>]

\* const changes = await parseXmlString(xml)
changes == parsed.changes

Start ==
  /\ fs = fs0
  /\ pc = "parse"
  /\ parsed = NotParsed
  /\ finalDirectory = Undefined
  /\ idx = 0
  /\ fullPath = Undefined
  /\ err = ""
  /\ succeededFiles = <<>>
  /\ failedFiles = <<>>
  /\ calls = <<>>

\* A call on one of the documents of the parser families
InitParser ==
  /\ xml \in ParserDocs
  /\ projectDirectory = ProjectDir
  /\ envDirectory = Undefined
  /\ fs0 = FsEmpty
  /\ Start

\* A call on a document of the apply family, or on one the structural
\* checks refuse, with each directory input on each initial filesystem
Init ==
  /\ xml \in ApplyDocs \cup StructureDocs
  /\ \E given \in DirectoryInputs :
       projectDirectory = given[1] /\ envDirectory = given[2]
  /\ fs0 \in InitialFs
  /\ Start

\* The call of parseXmlString and the test of what it returned
Parse ==
  /\ pc = "parse"
  /\ parsed' = ParseXmlString(xml)
  /\ IF parsed'.ok
       THEN pc' = "resolve" /\ err' = err
       ELSE pc' = "catch" /\ err' = parsed'.error
  /\ UNCHANGED << inputs, fs, finalDirectory, idx, fullPath, succeededFiles, failedFiles,
                  calls >>

\* The choice of finalDirectory and path.resolve
ResolveDirectory ==
  /\ pc = "resolve"
  /\ LET chosen == ChooseDirectory(projectDirectory, envDirectory)
     IN  IF Falsy(chosen)
           THEN pc' = "catch" /\ err' = ErrNoDirectory /\ finalDirectory' = chosen
           ELSE pc' = "access" /\ err' = err /\ finalDirectory' = Resolve(chosen)
  /\ UNCHANGED << inputs, fs, parsed, idx, fullPath, succeededFiles, failedFiles, calls >>

\* await fs.access(finalDirectory); denied stands for a refusal by the
\* operating system of a directory that exists
AccessDirectory ==
  /\ pc = "access"
  /\ \E denied \in BOOLEAN :
       IF Exists(fs, finalDirectory) /\ ~denied
         THEN pc' = "validate" /\ err' = err
         ELSE pc' = "catch" /\ err' = ErrAccess
  /\ UNCHANGED << inputs, fs, parsed, finalDirectory, idx, fullPath, succeededFiles,
                  failedFiles, calls >>

\* The validation loop over changes
Validate ==
  /\ pc = "validate"
  /\ LET message == ValidationError(changes, 1)
     IN  IF message = ""
           THEN pc' = "loop" /\ err' = err /\ idx' = 1
           ELSE pc' = "catch" /\ err' = message /\ idx' = idx
  /\ UNCHANGED << inputs, fs, parsed, finalDirectory, fullPath, succeededFiles,
                  failedFiles, calls >>

\* The next iteration of the apply loop: applyFileChanges is called and
\* runs to its switch
ApplyBegin ==
  /\ pc = "loop"
  /\ idx <= Len(changes)
  /\ LET change == changes[idx]
         branch == ApplyBranch(change)
     IN  /\ fullPath' = FullPath(change, finalDirectory)
         /\ calls' = Append(calls, [index |-> idx, fullPath |-> fullPath', state |-> "running"])
         /\ pc' = CASE branch = "throw" -> "failed"
                    [] branch = "write" -> "mkdir"
                    [] branch = "rm" -> "rm"
                    [] OTHER -> "returned"
         /\ err' = IF branch = "throw" THEN ErrNoFileCode ELSE err
  /\ UNCHANGED << inputs, fs, parsed, finalDirectory, idx, succeededFiles, failedFiles >>

\* await ensureDirectoryExists(dirname(fullPath)); denied stands for a
\* refusal by the operating system
EnsureDirectoryExists ==
  /\ pc = "mkdir"
  /\ LET dir == Dirname(fullPath)
         code == MkdirError(fs, dir)
     IN  \E denied \in BOOLEAN :
           IF denied
             THEN pc' = "failed" /\ err' = "EACCES" /\ fs' = fs
           ELSE IF code = ""
             THEN pc' = "write" /\ err' = err /\ fs' = MkdirResult(fs, dir)
           ELSE IF code = "EEXIST"
             THEN pc' = "write" /\ err' = err /\ fs' = fs
           ELSE pc' = "failed" /\ err' = code /\ fs' = fs
  /\ UNCHANGED << inputs, parsed, finalDirectory, idx, fullPath, succeededFiles,
                  failedFiles, calls >>

\* What a write that fails midway can leave at p: the file as it was, or
\* a file holding a proper prefix of the data
PartialWrites(fsys, p, data) ==
  {fsys} \cup { Put(fsys, p, File(SubSeq(data, 1, n))) : n \in 0..(Len(data) - 1) }

\* await fs.writeFile(fullPath, file_code, "utf-8")
WriteFile ==
  /\ pc = "write"
  /\ LET data == changes[idx].file_code
         code == WriteError(fs, fullPath)
     IN  \/ /\ code = ""
            /\ pc' = "returned" /\ err' = err
            /\ fs' = WriteResult(fs, fullPath, data)
         \/ /\ code = ""
            /\ pc' = "failed" /\ err' = "ENOSPC"
            /\ fs' \in PartialWrites(fs, fullPath, data)
         \/ /\ code # ""
            /\ pc' = "failed" /\ err' = code
            /\ fs' = fs
  /\ UNCHANGED << inputs, parsed, finalDirectory, idx, fullPath, succeededFiles,
                  failedFiles, calls >>

\* await fs.rm(fullPath, { force: true }); denied stands for a refusal by
\* the operating system
RemoveFile ==
  /\ pc = "rm"
  /\ LET code == RmError(fs, fullPath)
     IN  \E denied \in BOOLEAN :
           IF denied
             THEN pc' = "failed" /\ err' = "EACCES" /\ fs' = fs
           ELSE IF code = ""
             THEN pc' = "returned" /\ err' = err /\ fs' = RmResult(fs, fullPath)
           ELSE pc' = "failed" /\ err' = code /\ fs' = fs
  /\ UNCHANGED << inputs, parsed, finalDirectory, idx, fullPath, succeededFiles,
                  failedFiles, calls >>

Finish(cs, state) == [cs EXCEPT ![Len(cs)].state = state]

\* applyFileChanges returned: succeededFiles.push(...)
ApplySucceeded ==
  /\ pc = "returned"
  /\ succeededFiles' =
       Append(succeededFiles,
              SucceededEntry(changes[idx], ApplyReturnValue(changes[idx], finalDirectory)))
  /\ calls' = Finish(calls, "returned")
  /\ idx' = idx + 1
  /\ pc' = "loop"
  /\ UNCHANGED << inputs, fs, parsed, finalDirectory, fullPath, err, failedFiles >>

\* AfterFailure that leaves the loop
AfterFailure_Breaks(i) == [idx |-> i + 1, pc |-> "return"]

\* The catch block of the apply loop and the step it takes after it
AfterFailure(i) == [idx |-> i + 1, pc |-> "loop"]

\* applyFileChanges threw: the catch block of the apply loop
ApplyFailed ==
  /\ pc = "failed"
  /\ failedFiles' = Append(failedFiles, FailedEntry(changes[idx], finalDirectory, err))
  /\ calls' = Finish(calls, "threw")
  /\ idx' = AfterFailure(idx).idx
  /\ pc' = AfterFailure(idx).pc
  /\ UNCHANGED << inputs, fs, parsed, finalDirectory, fullPath, err, succeededFiles >>

\* The apply loop is over
LoopDone ==
  /\ pc = "loop"
  /\ idx > Len(changes)
  /\ pc' = "return"
  /\ UNCHANGED << inputs, fs, parsed, finalDirectory, idx, fullPath, err, succeededFiles,
                  failedFiles, calls >>

\* OuterCatchPush that records nothing
OuterCatchPush_Drops(failed, message) == failed

\* The entries the outer catch block adds to failedFiles
OuterCatchPush(failed, message) == Append(failed, SyntheticEntry(message))

\* The outer catch block
OuterCatch ==
  /\ pc = "catch"
  /\ failedFiles' = OuterCatchPush(failedFiles, err)
  /\ pc' = "return"
  /\ UNCHANGED << inputs, fs, parsed, finalDirectory, idx, fullPath, err, succeededFiles,
                  calls >>

Next ==
  \/ Parse
  \/ ResolveDirectory
  \/ AccessDirectory
  \/ Validate
  \/ ApplyBegin
  \/ EnsureDirectoryExists
  \/ WriteFile
  \/ RemoveFile
  \/ ApplySucceeded
  \/ ApplyFailed
  \/ LoopDone
  \/ OuterCatch

\* The whole call
Spec == Init /\ [][Next]_vars

\* parseXmlString alone, on the documents of the parser families
SpecParser == InitParser /\ [][Parse]_vars

\* ------------------------------------------------------------------------
\* Claims
\* ------------------------------------------------------------------------

\* parseXmlString has been called and has returned or thrown
ParseDone == pc # "parse"

\* C1: every entry parseXmlString returns has a non-empty file_summary, a
\* non-empty file_path, a file_operation that is CREATE, UPDATE or DELETE in
\* upper case, and a file_code when the operation is CREATE or UPDATE.
C1_ReturnedEntriesAreValid ==
  (ParseDone /\ parsed.ok) =>
    \A k \in 1..Len(changes) :
      /\ changes[k].file_summary # Undefined /\ changes[k].file_summary # <<>>
      /\ changes[k].file_path # Undefined /\ changes[k].file_path # <<>>
      /\ changes[k].file_operation \in {CREATE, UPDATE, DELETE}
      /\ (changes[k].file_operation \in {CREATE, UPDATE} =>
            changes[k].file_code # Undefined)

\* A legacy document whose operation is written "create" has been parsed
\* into one CREATE entry
C1_Witness ==
  /\ ParseDone
  /\ xml = Document(<<Block(<< <<Field("file_summary", <<" ", "s", " ">>),
                                 Field("file_operation", <<"c", "r", "e", "a", "t", "e">>),
                                 Field("file_path", <<"a">>),
                                 Field("file_code", <<"A">>)>> >>, "flat")>>)
  /\ parsed.ok
  /\ Len(changes) = 1
  /\ changes[1].file_operation = CREATE

\* No block of the document yields an entry
NoValidEntry(root) ==
  \A c \in 1..Len(ChangedFilesNodes(root)) :
    ProcessBlock(root, ChangedFilesNodes(root)[c]) = <<>>

\* The document is one of those parseXmlString must refuse
MustFail(x) ==
  \/ x.blank
  \/ ~x.hasOpenTag
  \/ ~x.hasCloseTag
  \/ x.documentElement.nodeName # "code_changes"
  \/ Len(ChangedFilesNodes(x.documentElement)) = 0
  \/ NoValidEntry(x.documentElement)

\* C2: parseXmlString throws, and returns no entry, when the document is
\* empty after trimming, lacks the code_changes container, has another
\* root, holds no changed_files element or yields no valid entry; and when
\* it returns, what it returns is not empty.
C2_FailsOrReturnsEntries ==
  ParseDone =>
    /\ MustFail(xml) => (~parsed.ok /\ parsed.error # "" /\ parsed.changes = <<>>)
    /\ parsed.ok => Len(parsed.changes) > 0

\* A document with both tags, the right root and a changed_files block,
\* all of whose entries were discarded, has been refused
C2_Witness ==
  /\ ParseDone
  /\ ~xml.blank /\ xml.hasOpenTag /\ xml.hasCloseTag
  /\ Len(ChangedFilesNodes(xml.documentElement)) > 0
  /\ Len(GetElementsByTagName(xml.documentElement, <<>>, "file")) > 0
  /\ ~parsed.ok
  /\ parsed.error = ErrNoValid

\* Position p comes before position q in document order (an element comes
\* before its descendants)
DocBefore(p, q) ==
  \E i \in 1..Len(q) :
    /\ \A j \in 1..(i - 1) : j <= Len(p) /\ p[j] = q[j]
    /\ (i > Len(p) \/ p[i] < q[i])

\* Position c is a proper ancestor of position p
IsAncestor(c, p) == Len(c) < Len(p) /\ SubSeq(p, 1, Len(c)) = c

\* The text passes the checks made before the blocks are read
PassesStructure(x) ==
  /\ ~x.blank /\ x.hasOpenTag /\ x.hasCloseTag
  /\ x.documentElement.nodeName = "code_changes"
  /\ Len(ChangedFilesNodes(x.documentElement)) > 0

\* The file elements lying in changed_files blocks, each once, in document
\* order
BlockFileElements(root) ==
  LET blocks == ChangedFilesNodes(root)
  IN  SelectSeq(GetElementsByTagName(root, <<>>, "file"),
                LAMBDA p : \E c \in 1..Len(blocks) : IsAncestor(blocks[c], p))

\* The entries of the valid ones among the file elements, from the k-th on
RECURSIVE ValidEntriesFrom(_, _, _)
ValidEntriesFrom(root, files, k) ==
  IF k > Len(files) THEN <<>>
  ELSE ProcessFileElement(NodeAt(root, files[k])) \o ValidEntriesFrom(root, files, k + 1)

ValidEntries(root) == ValidEntriesFrom(root, BlockFileElements(root), 1)

\* Every changed_files block holds file elements
AllBlocksWrapped(root) ==
  \A c \in 1..Len(ChangedFilesNodes(root)) :
    Len(GetElementsByTagName(root, ChangedFilesNodes(root)[c], "file")) > 0

\* C3: an invalid entry discards only itself: when the blocks of a document
\* hold file elements of which at least one is valid, parseXmlString
\* returns, and returns exactly the entries of the valid ones.
C3_ReturnsExactlyTheValidEntries ==
  ( /\ ParseDone
    /\ PassesStructure(xml)
    /\ AllBlocksWrapped(xml.documentElement)
    /\ ValidEntries(xml.documentElement) # <<>> )
  => (parsed.ok /\ parsed.changes = ValidEntries(xml.documentElement))

\* C4: the entries returned are in document order: of two entries, the one
\* read from the earlier place of the document comes earlier in what
\* parseXmlString returns.
C4_DocumentOrder ==
  (ParseDone /\ parsed.ok) =>
    \A i, j \in 1..Len(parsed.srcs) :
      DocBefore(parsed.srcs[i], parsed.srcs[j]) =>
        \E i2, j2 \in 1..Len(parsed.srcs) :
          /\ parsed.srcs[i2] = parsed.srcs[i]
          /\ parsed.srcs[j2] = parsed.srcs[j]
          /\ i2 < j2

\* The document is one wrapped block of one file element, and the entry
\* (the field elements) that element holds
IsSingleWrapped(x) ==
  LET root == x.documentElement
  IN  /\ PassesStructure(x)
      /\ Len(root.childNodes) = 2
      /\ Len(root.childNodes[2].childNodes) = 2
      /\ root.childNodes[2].childNodes[2].nodeName = "file"
      /\ Len(root.childNodes[2].childNodes[2].childNodes) >= 1
      /\ x = Document(<<Block(<<Tail(root.childNodes[2].childNodes[2].childNodes)>>, "file")>>)

WrappedEntry(x) == Tail(x.documentElement.childNodes[2].childNodes[2].childNodes)

\* C5: a document of one entry wrapped in a file element and the document
\* holding the same fields directly under changed_files parse alike: both
\* are refused, or both give the same single entry.
C5_DialectEquivalence ==
  (ParseDone /\ IsSingleWrapped(xml)) =>
    LET flat == ParseXmlString(Document(<<Block(<<WrappedEntry(xml)>>, "flat")>>))
    IN  /\ flat.ok = parsed.ok
        /\ flat.changes = parsed.changes
        /\ (parsed.ok => Len(parsed.changes) = 1)

\* A wrapped document of one entry, its operation written " Delete" and
\* its code in a CDATA section, has been parsed into one entry
C5_Witness ==
  /\ ParseDone
  /\ IsSingleWrapped(xml)
  /\ parsed.ok
  /\ parsed.changes[1].file_operation = DELETE
  /\ parsed.changes[1].file_code = <<"B">>

\* C6: applyFileChanges targets file_path itself when file_path is
\* absolute, whatever the directory, and the directory joined with
\* file_path when it is relative.
C6_PathResolution ==
  \A k \in 1..Len(calls) :
    LET path == changes[calls[k].index].file_path
    IN  calls[k].fullPath =
          IF IsAbsolute(path) THEN path ELSE Join(finalDirectory, path)

\* The calls of applyFileChanges that returned, and those that threw
ReturnedCalls == SelectSeq(calls, LAMBDA call : call.state = "returned")
ThrownCalls == SelectSeq(calls, LAMBDA call : call.state = "threw")

\* The apply loop was entered: parsing, directory resolution and
\* validation succeeded
LoopEntered == idx >= 1

\* C7: the outcome recorded for a change, in succeededFiles or in
\* failedFiles, carries as absolutePath the path applyFileChanges targeted
\* for it.
C7_RecordedPathIsTarget ==
  LoopEntered =>
    /\ \A k \in 1..Len(succeededFiles) :
         k <= Len(ReturnedCalls) =>
           succeededFiles[k].absolutePath = ReturnedCalls[k].fullPath
    /\ \A k \in 1..Len(failedFiles) :
         k <= Len(ThrownCalls) =>
           failedFiles[k].absolutePath = ThrownCalls[k].fullPath

\* C8: once the loop is entered with n changes, applyFileChanges is called
\* once per change, one call after the other in document order, a call
\* that throws does not stop the later ones, and on return every change is
\* in exactly one of succeededFiles and failedFiles, each in document
\* order.
C8_OneCallPerChange ==
  /\ \A k \in 1..Len(calls) :
       /\ calls[k].index = k
       /\ (k < Len(calls) => calls[k].state # "running")
  /\ (pc = "return" /\ LoopEntered) =>
       /\ Len(calls) = Len(changes)
       /\ \A k \in 1..Len(calls) : calls[k].state # "running"
       /\ Len(succeededFiles) + Len(failedFiles) = Len(changes)
       /\ Len(succeededFiles) = Len(ReturnedCalls)
       /\ Len(failedFiles) = Len(ThrownCalls)
       /\ \A k \in 1..Len(succeededFiles) :
            succeededFiles[k].filePath = changes[ReturnedCalls[k].index].file_path
       /\ \A k \in 1..Len(failedFiles) :
            /\ failedFiles[k].filePath = changes[ThrownCalls[k].index].file_path
            /\ failedFiles[k].error # ""

\* A batch of two changes has returned, the first call having thrown and
\* the second having returned
C8_Witness ==
  /\ pc = "return"
  /\ LoopEntered
  /\ Len(changes) = 2
  /\ Len(calls) = 2
  /\ calls[1].state = "threw"
  /\ calls[2].state = "returned"
  /\ Len(succeededFiles) = 1
  /\ Len(failedFiles) = 1

\* The directory chosen before it is resolved
Chosen == ChooseDirectory(projectDirectory, envDirectory)

\* The call failed before the first entry: the parser threw, no directory
\* was given, or the directory could not be accessed
Fatal ==
  \/ ~parsed.ok
  \/ Falsy(Chosen)
  \/ ~Exists(fs0, Resolve(Chosen))
  \/ err = ErrAccess

FatalMessage ==
  IF ~parsed.ok THEN parsed.error
  ELSE IF Falsy(Chosen) THEN ErrNoDirectory
  ELSE ErrAccess

\* C9: when the parser throws, no directory is given or the directory
\* cannot be accessed, applyChangesAction returns with succeededFiles
\* empty and failedFiles holding the one synthetic entry with that error's
\* message, applyFileChanges has not been called and the filesystem is as
\* it was.
C9_FatalErrorsAreReported ==
  (pc = "return" /\ Fatal) =>
    /\ succeededFiles = <<>>
    /\ failedFiles = <<SyntheticEntry(FatalMessage)>>
    /\ calls = <<>>
    /\ fs = fs0

\* A call on a document that parses, with a directory that is not there,
\* has returned
C9_Witness ==
  /\ pc = "return"
  /\ parsed.ok
  /\ ~Falsy(Chosen)
  /\ ~Exists(fs0, Resolve(Chosen))
  /\ failedFiles = <<SyntheticEntry(ErrAccess)>>

\* The batch has returned and no call threw
AppliedWithoutFailure == pc = "return" /\ LoopEntered /\ failedFiles = <<>>

\* The paths the calls targeted, and the last call on path X
Targets == { calls[k].fullPath : k \in 1..Len(calls) }
LastOn(X) == SetMax({ k \in 1..Len(calls) : calls[k].fullPath = X })

\* C10 as stated: after a batch applied without failure, the file at X
\* holds the code of the last CREATE or UPDATE on X when that is the last
\* operation on X, and nothing is at X when the last operation on X is a
\* DELETE.
C10_LastOperationWins_Stated ==
  AppliedWithoutFailure =>
    \A X \in Targets :
      LET last == changes[LastOn(X)]
      IN  /\ last.file_operation \in {CREATE, UPDATE} =>
               (IsFile(fs, X) /\ fs[X].content = last.file_code)
          /\ last.file_operation = DELETE => ~Exists(fs, X)

\* C10, amended: after a batch applied without failure, the file at X
\* holds the code of the last CREATE or UPDATE on X when that is the last
\* operation on X, and no file is at X when the last operation on X is a
\* DELETE (X may be a directory that a later entry beneath it created).
C10_LastOperationWins ==
  AppliedWithoutFailure =>
    \A X \in Targets :
      LET last == changes[LastOn(X)]
      IN  /\ last.file_operation \in {CREATE, UPDATE} =>
               (IsFile(fs, X) /\ fs[X].content = last.file_code)
          /\ last.file_operation = DELETE => ~IsFile(fs, X)

\* CREATE a with AA then UPDATE a with B has been applied without failure,
\* and a holds B
C10_Witness ==
  /\ AppliedWithoutFailure
  /\ Len(changes) = 2
  /\ changes[1].file_operation = CREATE
  /\ changes[2].file_operation = UPDATE
  /\ calls[1].fullPath = calls[2].fullPath
  /\ changes[1].file_code = <<"A", "A">>
  /\ fs[calls[2].fullPath] = File(<<"B">>)

\* The document is the one entry op, path, code in a file element
IsOneChange(op, path, code) == xml = Document(<<Block(<<Change(op, path, code)>>, "file")>>)

\* The relative paths and the codes of the round trips
RoundTripPaths == {<<"a">>, <<"a", "/", "b">>}
RoundTripCodes == {<<"A", "A">>, <<"B">>, <<"A", "\n">>}

\* C11: a document of one CREATE or UPDATE entry with code C at the
\* relative path P, parsed and applied under the directory R without any
\* failure, leaves at R/P a file holding C (trimmed, as the parser reads it)
\* and nothing else, whatever was there; every ancestor of R/P is a
\* directory afterwards, those that were there are as they were, and nothing
\* else of the filesystem has changed.
C11_RoundTrip ==
  \A op \in {CREATE, UPDATE}, P \in RoundTripPaths, C \in RoundTripCodes :
    (IsOneChange(op, P, C) /\ AppliedWithoutFailure) =>
      LET X == Join(finalDirectory, P)
          ancestors == { Prefixes(X)[k] : k \in 1..(Len(Prefixes(X)) - 1) }
      IN  /\ Len(calls) = 1
          /\ calls[1].fullPath = X
          /\ IsFile(fs, X)
          /\ fs[X].content = Trim(C)
          /\ \A d \in ancestors : IsDir(fs, d)
          /\ \A q \in DOMAIN fs0 \ {X} : Exists(fs, q) /\ fs[q] = fs0[q]
          /\ DOMAIN fs \ DOMAIN fs0 \subseteq ancestors \cup {X}

\* CREATE a/b has been applied where /p/a was missing: /p/a is now a
\* directory and /p/a/b holds the code without its trailing newline
C11_Witness ==
  /\ IsOneChange(CREATE, <<"a", "/", "b">>, <<"A", "\n">>)
  /\ AppliedWithoutFailure
  /\ ~Exists(fs0, <<"/", "p", "/", "a">>)
  /\ IsDir(fs, <<"/", "p", "/", "a">>)
  /\ fs[<<"/", "p", "/", "a", "/", "b">>] = File(<<"A">>)

\* C12: a DELETE whose resolved path does not exist completes without error
\* (unless the operating system refuses the call) and leaves the filesystem
\* as it was, so that a second DELETE of the same path changes nothing and
\* succeeds like the first.
C12_IdempotentDelete ==
  [][ (RemoveFile /\ ~Exists(fs, fullPath)) =>
        /\ fs' = fs
        /\ (pc' = "returned" \/ (pc' = "failed" /\ err' = "EACCES")) ]_vars

\* What is at path p: the entry there, or Undefined when nothing is
At(fsys, p) == IF Exists(fsys, p) THEN fsys[p] ELSE Undefined

\* C13: when a CREATE or UPDATE fails, at the creation of the directories
\* or at the write, the file at the resolved path is as it was before or
\* holds the whole new code, never a part of it.
C13_NoPartialWrite ==
  [][ ((EnsureDirectoryExists \/ WriteFile) /\ pc' = "failed") =>
        \/ At(fs', fullPath) = At(fs, fullPath)
        \/ At(fs', fullPath) = File(changes[idx].file_code) ]_vars

\* The entries of the complete tuples es, one per tuple, from the k-th on:
\* what each gives when read on its own
RECURSIVE TupleEntries(_, _)
TupleEntries(es, k) ==
  IF k > Len(es) THEN <<>>
  ELSE ProcessFileElement(Elem("file", es[k])) \o TupleEntries(es, k + 1)

\* C14: one legacy block of k complete tuples, one after the other, gives k
\* entries, one per tuple, in document order, each with the fields of its
\* own tuple.
C14_OneEntryPerTuple ==
  \A n \in 1..MaxEntries :
    \A es \in [1..n -> Tuples] :
      (ParseDone /\ xml = Document(<<Block(es, "flat")>>)) =>
        /\ parsed.ok
        /\ Len(parsed.changes) = n
        /\ parsed.changes = TupleEntries(es, 1)

\* C15: in a legacy block, when the tuple being read lacks its next tag or
\* has it out of order, no entry comes from that tuple or from what follows
\* it in the block, the entries completed before it are kept, and the
\* blocks after it are read: the document is not refused.
C15_BrokenTupleStopsTheBlock ==
  \A pre \in {<<>>, <<EntryCreate>>}, broken \in BrokenEntries,
     post \in {<<>>, <<EntryUpdate>>} :
    (ParseDone /\ xml = BrokenDoc(pre, broken, post)) =>
      /\ parsed.ok
      /\ parsed.changes = TupleEntries(pre, 1) \o TupleEntries(<<EntryDelete>>, 1)

\* The code an entry (its field elements) is to give: the trimmed content
\* of the CDATA section of its file_code element when it has one, its
\* trimmed text otherwise, and Undefined when that is empty or the element
\* is missing
CodeOf(entry) ==
  LET codes == SelectSeq(entry, LAMBDA node : node.nodeName = "file_code")
  IN  IF codes = <<>> THEN Undefined
      ELSE LET node == codes[Len(codes)]
               k == FirstCData(node, 1)
               v == IF k > 0 THEN Trim(node.childNodes[k].nodeValue)
                    ELSE Trim(TextContent(node))
           IN  IF v = <<>> THEN Undefined ELSE v

\* C16: the code of an entry is the trimmed content of the CDATA section of
\* its file_code element when there is one, the element's trimmed text
\* otherwise, and is missing, never the empty string, when there is no
\* content: element absent, empty, blank, or holding a blank CDATA section;
\* for every operation.
C16_FileCodeExtraction ==
  \A e \in FieldEntries, d \in Dialects :
    (ParseDone /\ parsed.ok /\ xml = Document(<<Block(<<e>>, d)>>)) =>
      /\ parsed.changes[1].file_code = CodeOf(e)
      /\ parsed.changes[1].file_code # <<>>

\* The changed_files blocks without a file element beneath them
LegacyBlocks(root) ==
  SelectSeq(ChangedFilesNodes(root),
            LAMBDA c : Len(GetElementsByTagName(root, c, "file")) = 0)

\* C17: every file element and every legacy block gives at most one of the
\* entries returned, so there are no more entries than file elements and
\* legacy blocks together, also when changed_files blocks are nested.
C17_NoDuplication ==
  (ParseDone /\ parsed.ok) =>
    /\ \A i, j \in 1..Len(parsed.srcs) : parsed.srcs[i] = parsed.srcs[j] => i = j
    /\ Len(parsed.changes) <=
         Len(GetElementsByTagName(xml.documentElement, <<>>, "file"))
           + Len(LegacyBlocks(xml.documentElement))

\* C18: whatever parseXmlString returns, the validation loop of
\* applyChangesAction does not throw on it, and applyFileChanges takes for
\* each entry the write or the removal, never the "No file_code provided"
\* error nor the default branch of its switch.
C18_ParserCoversConsumers ==
  (ParseDone /\ parsed.ok) =>
    /\ ValidationError(parsed.changes, 1) = ""
    /\ \A k \in 1..Len(parsed.changes) :
         /\ EntryError(parsed.changes[k]) = ""
         /\ ApplyBranch(parsed.changes[k]) \in {"write", "rm"}
         /\ (ApplyBranch(parsed.changes[k]) = "write" <=>
               parsed.changes[k].file_operation \in {CREATE, UPDATE})

\* A document of three entries has been parsed, one of them a DELETE
\* without code, and the consumers accept all three
C18_Witness ==
  /\ ParseDone
  /\ parsed.ok
  /\ Len(parsed.changes) = 3
  /\ \E k \in 1..3 :
       /\ parsed.changes[k].file_operation = DELETE
       /\ parsed.changes[k].file_code = Undefined
       /\ ApplyBranch(parsed.changes[k]) = "rm"
  /\ \E k \in 1..3 : ApplyBranch(parsed.changes[k]) = "write"
  /\ ValidationError(parsed.changes, 1) = ""

====
